---- MODULE Spec2Model ----
(***************************************************************************)
(* Model of the colorization GAN training orchestrator                     *)
(* (src/src/GANModel.py, class ColorizationGAN) and of the channel /       *)
(* shape bookkeeping of the ResNet-18 encoder-decoder generator            *)
(* (src/src/models/ResNet_Generator.py).                                   *)
(*                                                                         *)
(* Tensors are abstracted to what the claims observe:                      *)
(*  - a parameter is an integer value, a .grad that is absent (None) or an *)
(*    integer, and a requires_grad flag;                                   *)
(*  - a computed tensor is the set of autograd leaves its graph reaches    *)
(*    (field leaves) and, for a loss, a value counted in halves            *)
(*    (val = 2 means 1.0), so that "* 0.5" is exact as it is in binary     *)
(*    floating point;                                                      *)
(*  - the data of a batch (L, ab) shows up as the loss values and the      *)
(*    partial derivatives each backward pass produces, drawn with \E.      *)
(* optimize is a straight-line method; it is split at the statement        *)
(* groups the properties talk about and pc is the position inside it.      *)
(* Nothing interleaves: while pc # "idle" only the next group can run.     *)
(***************************************************************************)
EXTENDS Integers, FiniteSets, Sequences, TLC

VARIABLES param, grad, requires_grad, training, opt_G, opt_D, loss,
          fake_ab, pc, call, ret, raised, invoked, nOptimize,
          out_channels, x, enc, dpc

ganVars == <<param, grad, requires_grad, training, opt_G, opt_D, loss,
             fake_ab, pc, call, ret, raised, invoked, nOptimize>>
decVars == <<out_channels, x, enc, dpc>>
vars == <<param, grad, requires_grad, training, opt_G, opt_D, loss,
          fake_ab, pc, call, ret, raised, invoked, nOptimize,
          out_channels, x, enc, dpc>>

\* ---------------------------------------------------------------- bounds
MaxOptimize == 2
MaxLoss == 1
MaxSize == 3

\* ------------------------------------------------------------- constants
lambda_l1 == 100

GenParams == {"g1", "g2"}
DiscParams == {"d1", "d2"}
Params == GenParams \cup DiscParams

\* partial derivatives a backward pass can deliver to one leaf: zero (the
\* parameter keeps its value when stepped) or non-zero (it moves)
Grads == {0, 1}

LossNames == {"loss_D_fake", "loss_D_real", "loss_D",
              "loss_G_GAN", "loss_G_L1", "loss_G"}

EmptyFn == [n \in {} |-> 0]

\* ------------------------------------------------------ autograd helpers

\* tensor.detach(): same values, cut from the graph
Detach_keep(leaves) == leaves
Detach(leaves) == {}

\* with torch.no_grad(): results computed inside carry no graph
NoGrad_keep(leaves) == leaves
NoGrad(leaves) == {}

\* self.gen(L): the output reaches every generator parameter that requires grad
GenForward(rg) == {p \in GenParams : rg[p]}

\* self.disc(image): the output reaches the leaves of the input and every
\* discriminator parameter that requires grad at the time of the call
DiscForward(input, rg) == input \cup {p \in DiscParams : rg[p]}

\* set_requires_grad(model, requires_grad)
set_requires_grad_stuck(rg, model, flag) == [p \in Params |-> IF p \in model THEN FALSE ELSE rg[p]]
set_requires_grad(rg, model, flag) == [p \in Params |-> IF p \in model THEN flag ELSE rg[p]]

\* module.zero_grad() / optimizer.zero_grad(): .grad of the group becomes None
ZeroGrad(g, group) == [p \in (DOMAIN g) \ group |-> g[p]]

\* tensor.backward(): every leaf of the graph accumulates its derivative d[p]
Backward(g, leaves, d) ==
    [p \in (DOMAIN g) \cup leaves |->
        IF p \in leaves
        THEN (IF p \in DOMAIN g THEN g[p] ELSE 0) + d[p]
        ELSE g[p]]

\* the parameter groups handed to the two Adam optimizers
OptGParams == GenParams
OptDParams_all == Params
OptDParams == DiscParams

\* optimizer.step(): a parameter of the group whose .grad is None is skipped;
\* the others move against their gradient and their step count goes up
Stepped_any(group, g) == DOMAIN g
Stepped_nonzero(group, g) == {p \in group \cap DOMAIN g : g[p] # 0}
Stepped(group, g) == group \cap DOMAIN g

AdamParam(group, g, w) == [p \in Params |-> IF p \in Stepped(group, g) THEN w[p] - g[p] ELSE w[p]]
AdamCount(group, g, st) == [p \in Params |-> IF p \in Stepped(group, g) THEN st[p] + 1 ELSE st[p]]

\* (a + b) * 0.5 on values counted in halves
Mean2_sum(a, b) == a + b
Mean2(a, b) == (a + b) \div 2

\* a scalar loss tensor
T(v, leaves) == [val |-> v, leaves |-> leaves]

\* ------------------------------------------------------- ColorizationGAN

GanInit ==
    /\ param = [p \in Params |-> 0]
    /\ grad = EmptyFn
    /\ requires_grad = [p \in Params |-> TRUE]
    /\ training = [n \in {"gen", "disc"} |-> TRUE]
    /\ opt_G = [p \in Params |-> 0]
    /\ opt_D = [p \in Params |-> 0]
    /\ loss = EmptyFn
    /\ fake_ab = {}
    /\ pc = "idle"
    /\ call = "init"
    /\ ret = <<>>
    /\ raised = FALSE
    /\ invoked = {}
    /\ nOptimize = 0

DecIdle ==
    /\ out_channels = 512
    /\ x = [c |-> 3, h |-> 32, w |-> 32]
    /\ enc = EmptyFn
    /\ dpc = "unused"

Init == GanInit /\ DecIdle

\* optimize, lines 121-125: generator forward, reshape of L
OptimizeForward ==
    /\ pc = "idle"
    /\ nOptimize < MaxOptimize
    /\ call' = "optimize"
    /\ fake_ab' = GenForward(requires_grad)
    /\ invoked' = {"gen"}
    /\ ret' = <<>>
    /\ pc' = "d_prep"
    /\ UNCHANGED <<param, grad, requires_grad, training, opt_G, opt_D, loss,
                   raised, nOptimize>>
    /\ UNCHANGED decVars

\* optimize, lines 127-129
DPrep ==
    /\ pc = "d_prep"
    /\ training' = [training EXCEPT !["disc"] = TRUE]
    /\ requires_grad' = set_requires_grad(requires_grad, DiscParams, TRUE)
    /\ grad' = ZeroGrad(grad, DiscParams)
    /\ pc' = "d_loss"
    /\ UNCHANGED <<param, opt_G, opt_D, loss, fake_ab, call, ret, raised,
                   invoked, nOptimize>>
    /\ UNCHANGED decVars

\* optimize, lines 131-142
DLoss ==
    /\ pc = "d_loss"
    /\ \E bf \in 0..MaxLoss, br \in 0..MaxLoss :
         LET fake_image == fake_ab
             fake_predictions == DiscForward(Detach(fake_image), requires_grad)
             real_predictions == DiscForward({}, requires_grad)
             lf == T(2 * bf, fake_predictions)
             lr == T(2 * br, real_predictions)
             ld == T(Mean2(lf.val, lr.val), lf.leaves \cup lr.leaves)
         IN loss' = [n \in (DOMAIN loss) \cup {"loss_D_fake", "loss_D_real", "loss_D"} |->
                       CASE n = "loss_D_fake" -> lf
                         [] n = "loss_D_real" -> lr
                         [] n = "loss_D" -> ld
                         [] OTHER -> loss[n]]
    /\ invoked' = invoked \cup {"disc"}
    /\ pc' = "d_backward"
    /\ UNCHANGED <<param, grad, requires_grad, training, opt_G, opt_D,
                   fake_ab, call, ret, raised, nOptimize>>
    /\ UNCHANGED decVars

\* optimize, line 145
DBackward ==
    /\ pc = "d_backward"
    /\ \E d \in [loss["loss_D"].leaves -> Grads] :
         grad' = Backward(grad, loss["loss_D"].leaves, d)
    /\ pc' = "d_step"
    /\ UNCHANGED <<param, requires_grad, training, opt_G, opt_D, loss,
                   fake_ab, call, ret, raised, invoked, nOptimize>>
    /\ UNCHANGED decVars

\* optimize, line 146
DStep ==
    /\ pc = "d_step"
    /\ param' = AdamParam(OptDParams, grad, param)
    /\ opt_D' = AdamCount(OptDParams, grad, opt_D)
    /\ pc' = "g_prep"
    /\ UNCHANGED <<grad, requires_grad, training, opt_G, loss, fake_ab,
                   call, ret, raised, invoked, nOptimize>>
    /\ UNCHANGED decVars

\* optimize, lines 148-150
GPrep ==
    /\ pc = "g_prep"
    /\ training' = [training EXCEPT !["gen"] = TRUE]
    /\ requires_grad' = set_requires_grad(requires_grad, DiscParams, FALSE)
    /\ grad' = ZeroGrad(grad, OptGParams)
    /\ pc' = "g_loss"
    /\ UNCHANGED <<param, opt_G, opt_D, loss, fake_ab, call, ret, raised,
                   invoked, nOptimize>>
    /\ UNCHANGED decVars

\* optimize, lines 152-156
GLoss ==
    /\ pc = "g_loss"
    /\ \E bg \in 0..MaxLoss, b1 \in 0..MaxLoss :
         LET fake_image == fake_ab
             fake_predictions == DiscForward(fake_image, requires_grad)
             lgan == T(2 * bg, fake_predictions)
             ll1 == T(2 * b1 * lambda_l1, fake_ab)
             lg == T(lgan.val + ll1.val, lgan.leaves \cup ll1.leaves)
         IN loss' = [n \in (DOMAIN loss) \cup {"loss_G_GAN", "loss_G_L1", "loss_G"} |->
                       CASE n = "loss_G_GAN" -> lgan
                         [] n = "loss_G_L1" -> ll1
                         [] n = "loss_G" -> lg
                         [] OTHER -> loss[n]]
    /\ invoked' = invoked \cup {"disc"}
    /\ pc' = "g_backward"
    /\ UNCHANGED <<param, grad, requires_grad, training, opt_G, opt_D,
                   fake_ab, call, ret, raised, nOptimize>>
    /\ UNCHANGED decVars

\* optimize, line 159
GBackward ==
    /\ pc = "g_backward"
    /\ \E d \in [loss["loss_G"].leaves -> Grads] :
         grad' = Backward(grad, loss["loss_G"].leaves, d)
    /\ pc' = "g_step"
    /\ UNCHANGED <<param, requires_grad, training, opt_G, opt_D, loss,
                   fake_ab, call, ret, raised, invoked, nOptimize>>
    /\ UNCHANGED decVars

\* optimize, line 160, and the return of None
GStep ==
    /\ pc = "g_step"
    /\ param' = AdamParam(OptGParams, grad, param)
    /\ opt_G' = AdamCount(OptGParams, grad, opt_G)
    /\ fake_ab' = {}
    /\ ret' = <<>>
    /\ nOptimize' = nOptimize + 1
    /\ pc' = "idle"
    /\ UNCHANGED <<grad, requires_grad, training, opt_D, loss, call, raised,
                   invoked>>
    /\ UNCHANGED decVars

\* test, lines 179-182: both networks go to evaluation mode, then
\* "with torch.no_grad:" names the class instead of an instance of it; the
\* class object has no context-manager protocol, so the statement raises and
\* lines 183-211 never run.  The exception is not caught anywhere (fatal).
test ==
    /\ pc = "idle"
    /\ call' = "test"
    /\ training' = [n \in {"gen", "disc"} |-> FALSE]
    /\ raised' = TRUE
    /\ ret' = <<>>
    /\ invoked' = {}
    /\ pc' = "raised"
    /\ UNCHANGED <<param, grad, requires_grad, opt_G, opt_D, loss, fake_ab,
                   nOptimize>>
    /\ UNCHANGED decVars

\* generate, lines 227-233
generate ==
    /\ pc = "idle"
    /\ call' = "generate"
    /\ training' = [training EXCEPT !["gen"] = FALSE]
    /\ invoked' = {"gen"}
    /\ ret' = << [name |-> "fake_ab", leaves |-> NoGrad(GenForward(requires_grad))] >>
    /\ UNCHANGED <<param, grad, requires_grad, opt_G, opt_D, loss, fake_ab,
                   pc, raised, nOptimize>>
    /\ UNCHANGED decVars

Next ==
    \/ OptimizeForward
    \/ DPrep
    \/ DLoss
    \/ DBackward
    \/ DStep
    \/ GPrep
    \/ GLoss
    \/ GBackward
    \/ GStep
    \/ test
    \/ generate

Spec == Init /\ [][Next]_vars

\* ------------------------------------------- ResNetEncoder / ResNetDecoder

\* out_channels values a decoder is constructed with (512 is the default)
OutChannelsChoices == {256, 512, 1024}

\* input sizes: multiples of 32, the total stride of the encoder
Sizes == {32 * k : k \in 1..MaxSize}

\* the ResNet-18 stages the encoder runs, in order, with the attribute each
\* result is kept in, its channel count and its stride relative to its input
EncoderStages ==
    << [attr |-> "init_layer", c |-> 64,  down |-> 2],
       [attr |-> "block1",     c |-> 64,  down |-> 2],
       [attr |-> "block2",     c |-> 128, down |-> 2],
       [attr |-> "block3",     c |-> 256, down |-> 2],
       [attr |-> "block4",     c |-> 512, down |-> 2] >>

\* (in_channels, out_channels) of up_block1..up_block5 as __init__ declares them
UpBlocks_narrow(oc) ==
    << [in_channels |-> 512,        out_channels |-> oc \div 2],
       [in_channels |-> oc,         out_channels |-> oc \div 4],
       [in_channels |-> oc \div 2,  out_channels |-> oc \div 8],
       [in_channels |-> oc \div 4,  out_channels |-> oc \div 16],
       [in_channels |-> oc \div 4,  out_channels |-> 2] >>
UpBlocks(oc) ==
    << [in_channels |-> 512,        out_channels |-> oc \div 2],
       [in_channels |-> oc,         out_channels |-> oc \div 4],
       [in_channels |-> oc \div 2,  out_channels |-> oc \div 8],
       [in_channels |-> oc \div 4,  out_channels |-> oc \div 8],
       [in_channels |-> oc \div 4,  out_channels |-> 2] >>

\* the encoder attribute concatenated after up_block1..up_block4
SkipOf == <<"block3", "block2", "block1", "init_layer">>

\* ConvTranspose2d(kernel_size=4, stride=2, padding=1): (n - 1) * 2 - 2 + 4
TranspConvSize(n) == (n - 1) * 2 - 2 * 1 + 4

\* torch.cat([a, b], dim=1)
CatChannels(a, b) == [c |-> a.c + b.c, h |-> b.h, w |-> b.w]

DecPos == <<"up_1", "up_2", "up_3", "up_4", "up_5", "done">>
EncPos == <<"init_layer", "block1", "block2", "block3", "block4", "up_1">>

\* a generator is built and handed an input batch
DecoderInit ==
    /\ GanInit
    /\ out_channels \in OutChannelsChoices
    /\ \E h \in Sizes, w \in Sizes : x = [c |-> 3, h |-> h, w |-> w]
    /\ enc = EmptyFn
    /\ dpc = "init_layer"

\* ResNetEncoder.forward, one stage (lines 16-18, 20-21, 22, 23, 24)
EncoderStage(k) ==
    /\ dpc = EncPos[k]
    /\ LET st == EncoderStages[k]
           out == [c |-> st.c, h |-> x.h \div st.down, w |-> x.w \div st.down]
       IN /\ x' = out
          /\ enc' = [a \in (DOMAIN enc) \cup {st.attr} |->
                        IF a = st.attr THEN out ELSE enc[a]]
    /\ dpc' = EncPos[k + 1]
    /\ UNCHANGED out_channels
    /\ UNCHANGED ganVars

\* ResNetDecoder.forward, up_block i followed by the skip concatenation
\* (lines 51-52, 54-55, 57-58, 60-61)
DecoderStage(i) ==
    /\ dpc = DecPos[i]
    /\ x.c = UpBlocks(out_channels)[i].in_channels
    /\ LET up == [c |-> UpBlocks(out_channels)[i].out_channels,
                  h |-> TranspConvSize(x.h),
                  w |-> TranspConvSize(x.w)]
           skip == enc[SkipOf[i]]
       IN /\ skip.h = up.h /\ skip.w = up.w
          /\ x' = CatChannels(skip, up)
    /\ dpc' = DecPos[i + 1]
    /\ UNCHANGED <<out_channels, enc>>
    /\ UNCHANGED ganVars

\* ResNetDecoder.forward, lines 63-66
DecoderOutput ==
    /\ dpc = "up_5"
    /\ x.c = UpBlocks(out_channels)[5].in_channels
    /\ x' = [c |-> UpBlocks(out_channels)[5].out_channels,
             h |-> TranspConvSize(x.h),
             w |-> TranspConvSize(x.w)]
    /\ dpc' = "done"
    /\ UNCHANGED <<out_channels, enc>>
    /\ UNCHANGED ganVars

\* a transposed convolution fed a tensor whose channel count is not the
\* in_channels it was declared with raises
DecoderMismatch ==
    /\ \E i \in 1..5 : dpc = DecPos[i] /\ x.c # UpBlocks(out_channels)[i].in_channels
    /\ dpc' = "raised"
    /\ UNCHANGED <<out_channels, x, enc>>
    /\ UNCHANGED ganVars

DecoderNext ==
    \/ \E k \in 1..5 : EncoderStage(k)
    \/ \E i \in 1..4 : DecoderStage(i)
    \/ DecoderOutput
    \/ DecoderMismatch

SpecDecoder == DecoderInit /\ [][DecoderNext]_vars

\* ------------------------------------------------------------ properties

DSub == {"d_prep", "d_loss", "d_backward", "d_step"}
GSub == {"g_prep", "g_loss", "g_backward", "g_step"}

SameOn(S, f, g) == \A p \in S : f[p] = g[p]
SameGradOn(S, f, g) ==
    \A p \in S : /\ (p \in DOMAIN f) <=> (p \in DOMAIN g)
                 /\ (p \in DOMAIN f) => f[p] = g[p]

Frozen == \A p \in DiscParams : ~requires_grad[p]
Unfrozen == \A p \in DiscParams : requires_grad[p]

\* C1: in every step of the discriminator sub-step of optimize (through
\* opt_D.step()) no generator parameter changes, and in every step of the
\* generator sub-step (through opt_G.step()) no discriminator parameter
\* changes.
C1_Step ==
    /\ (pc \in DSub => SameOn(GenParams, param', param))
    /\ (pc \in GSub => SameOn(DiscParams, param', param))
C1_ParameterIsolation == [][C1_Step]_vars

\* opt_D.step() of a second optimize call has just run: the discriminator
\* moved while the generator still carried non-zero gradients of the first call
C1_Witness ==
    /\ pc = "g_prep"
    /\ nOptimize = 1
    /\ \E g \in GenParams : g \in DOMAIN grad /\ grad[g] # 0
    /\ \E d \in DiscParams : param[d] # 0 /\ grad[d] # 0
    /\ \E g \in GenParams : param[g] # 0

\* C2: throughout the generator sub-step opt_D has already stepped once
\* more than opt_G (the discriminator update of this call is applied and
\* the generator update is not yet), and from there to the end of the call
\* no discriminator parameter changes.
C2_Step ==
    pc \in GSub =>
        /\ \A d \in DiscParams : \A g \in GenParams : opt_D[d] = opt_G[g] + 1
        /\ SameOn(DiscParams, param', param)
C2_DiscriminatorFirst == [][C2_Step]_vars

\* an optimize call has ended whose opt_G.step() moved the generator while
\* the discriminator still held a non-zero gradient from loss_D.backward()
C2_Witness ==
    /\ pc = "idle"
    /\ call = "optimize"
    /\ nOptimize >= 1
    /\ \E d \in DiscParams : d \in DOMAIN grad /\ grad[d] # 0
    /\ \E g \in GenParams : param[g] # 0

\* C3 (as stated): the discriminator parameters require grad when
\* loss_D.backward() and opt_D.step() run, and they have
\* requires_grad = False only while the generator loss is computed and
\* backpropagated (through opt_G.step()).
C3_FrozenOnlyInGeneratorStep ==
    /\ (pc \in {"d_backward", "d_step"} => Unfrozen)
    /\ ((\E p \in DiscParams : ~requires_grad[p]) =>
            pc \in {"g_loss", "g_backward", "g_step"})

\* C3 (amended): the discriminator parameters require grad from
\* set_requires_grad(self.disc, True) through opt_D.step(); they are frozen
\* from set_requires_grad(self.disc, False) to the end of the call and stay
\* frozen after it, across test and generate calls, until the next optimize
\* call runs set_requires_grad(self.disc, True).
C3_FreezeRestoredBeforeDStep ==
    IF \/ pc \in {"g_loss", "g_backward", "g_step"}
       \/ (pc \in {"idle", "d_prep", "raised"} /\ nOptimize >= 1)
    THEN Frozen
    ELSE Unfrozen

\* loss_D.backward() of a second optimize call is about to run, after the
\* first call left the discriminator frozen
C3_Witness ==
    /\ pc = "d_backward"
    /\ nOptimize = 1
    /\ Unfrozen

\* C4: between calls both optimizers have stepped every one of their
\* parameters exactly as many times as optimize calls have completed (and no
\* other parameter), whatever test and generate calls came in between, and
\* once an optimize call has completed all six loss attributes exist.
C4_StepCounters ==
    /\ (pc \in {"idle", "raised"} =>
          /\ \A d \in DiscParams : opt_D[d] = nOptimize /\ opt_G[d] = 0
          /\ \A g \in GenParams : opt_G[g] = nOptimize /\ opt_D[g] = 0)
    /\ (pc \in GSub => \A d \in DiscParams : opt_D[d] = nOptimize + 1)
    /\ (nOptimize >= 1 => DOMAIN loss = LossNames)

\* two optimize calls followed by a generate call
C4_Witness ==
    /\ pc = "idle"
    /\ call = "generate"
    /\ nOptimize = 2

\* C5: a test call completes normally, leaves the six loss attributes
\* set and returns the fake composite image.
C5_TestCompletes ==
    call = "test" =>
        /\ ~raised
        /\ DOMAIN loss = LossNames
        /\ Len(ret) = 1

\* C6: a generate call runs only the generator, in evaluation mode,
\* returns exactly one tensor that carries no autograd graph, and changes
\* no parameter, gradient, requires_grad flag, optimizer state or loss
\* attribute.
C6_Step ==
    (pc = "idle" /\ call' = "generate") =>
        /\ invoked' = {"gen"}
        /\ ~training'["gen"]
        /\ training'["disc"] = training["disc"]
        /\ ~raised'
        /\ Len(ret') = 1
        /\ ret'[1].name = "fake_ab"
        /\ ret'[1].leaves = {}
        /\ UNCHANGED <<param, grad, requires_grad, opt_G, opt_D, loss>>
C6_GeneratePure == [][C6_Step]_vars

\* generate has returned on a trained model whose parameters hold gradients
C6_Witness ==
    /\ call = "generate"
    /\ nOptimize >= 1
    /\ Len(ret) = 1
    /\ DOMAIN grad = Params
    /\ \E g \in GenParams : param[g] # 0

\* C7: the graph of loss_D reaches no generator parameter and
\* loss_D.backward() leaves every generator .grad as it was; the graph of
\* loss_G reaches every generator parameter and loss_G.backward() gives each
\* a gradient; no other step of optimize writes a generator gradient
\* (opt_G.zero_grad() clears them).
C7_Step ==
    /\ (pc = "d_backward" =>
          /\ loss["loss_D"].leaves \cap GenParams = {}
          /\ SameGradOn(GenParams, grad', grad))
    /\ (pc = "g_backward" =>
          /\ GenParams \subseteq loss["loss_G"].leaves
          /\ GenParams \subseteq DOMAIN grad')
    /\ (pc \notin {"g_backward", "g_prep"} =>
          SameGradOn(GenParams, grad', grad))
C7_GradientIsolation == [][C7_Step]_vars

\* loss_D.backward() of a second call has run, giving the discriminator a
\* non-zero gradient, while the generator holds a non-zero gradient
C7_Witness ==
    /\ pc = "d_step"
    /\ nOptimize = 1
    /\ \E d \in DiscParams : grad[d] # 0
    /\ \E g \in GenParams : g \in DOMAIN grad /\ grad[g] # 0

\* C8: whenever the loss attributes are set, loss_D is exactly the mean
\* of loss_D_fake and loss_D_real: twice loss_D is their sum.
C8_DiscriminatorLossIsMean ==
    "loss_D" \in DOMAIN loss =>
        2 * loss["loss_D"].val = loss["loss_D_fake"].val + loss["loss_D_real"].val

\* losses written with different fake and real components
C8_Witness ==
    /\ "loss_D" \in DOMAIN loss
    /\ loss["loss_D_fake"].val # loss["loss_D_real"].val
    /\ loss["loss_D"].val > 0

\* C9: with out_channels = 512 the forward pass never meets a channel
\* mismatch, the skips have 256, 128, 64 and 64 channels, the tensor that
\* reaches up_block i+1 has the channels of up_block i's output plus the
\* channels of its skip and that is the in_channels up_block i+1 declares,
\* and the output has 2 channels.
C9_ChannelInvariant ==
    out_channels = 512 =>
        /\ dpc # "raised"
        /\ \A i \in 1..4 :
             dpc = DecPos[i + 1] =>
               /\ enc["block3"].c = 256 /\ enc["block2"].c = 128
               /\ enc["block1"].c = 64 /\ enc["init_layer"].c = 64
               /\ x.c = UpBlocks(out_channels)[i].out_channels + enc[SkipOf[i]].c
               /\ x.c = UpBlocks(out_channels)[i + 1].in_channels
        /\ (dpc = "done" => x.c = 2)

\* a default decoder has produced its output for a 96 x 64 input
C9_Witness ==
    /\ out_channels = 512
    /\ dpc = "done"
    /\ x = [c |-> 2, h |-> 96, w |-> 64]

\* C10: the generator forward pass of optimize has run with the
\* generator in training mode, and the discriminator forward passes of
\* optimize run with the discriminator in training mode.
C10_ForwardInTrainingMode ==
    /\ (pc = "d_prep" => training["gen"])
    /\ (pc \in {"d_loss", "g_loss"} => training["disc"])

====
